---- MODULE Spec2Model ----
(***************************************************************************)
(* A model of src/lib/panzoom.ts: the pan/zoom action attached to a canvas.*)
(*                                                                         *)
(* JavaScript numbers are modelled as exact rationals <<n, d>> in lowest   *)
(* terms with d > 0; the non-finite values a division by zero produces are *)
(* kept: <<1, 0>> is Infinity, <<-1, 0>> is -Infinity and <<0, 0>> is NaN. *)
(* Rounding of IEEE doubles is not modelled.                               *)
(*                                                                         *)
(* The 2d context's current transform is only ever changed by translate    *)
(* and uniform scale calls, so of its matrix [a b c d e f] the entries     *)
(* b = c = 0 and d = a always; the model keeps a, e and f.                 *)
(***************************************************************************)
EXTENDS Integers, Sequences, FiniteSets, TLC

(***************************************************************************)
(* Numbers                                                                 *)
(***************************************************************************)
RECURSIVE GCD(_, _)
GCD(a, b) == IF b = 0 THEN a ELSE GCD(b, a % b)

Abs(n) == IF n < 0 THEN -n ELSE n

Sign(n) == IF n < 0 THEN -1 ELSE IF n > 0 THEN 1 ELSE 0

Infinity == <<1, 0>>

NaN == <<0, 0>>

R(n, d) ==
  IF d = 0 THEN <<Sign(n), 0>>
  ELSE LET g == GCD(Abs(n), Abs(d))
       IN  <<Sign(d) * (n \div g), Abs(d) \div g>>

I(n) == <<n, 1>>

isFinite(p) == p[2] # 0

isNaN(p) == p = NaN

Neg(p) == <<-p[1], p[2]>>

Add(p, q) ==
  IF isFinite(p) /\ isFinite(q)
  THEN (IF p[2] = q[2]
        THEN (IF p[2] = 1 THEN <<p[1] + q[1], 1>> ELSE R(p[1] + q[1], p[2]))
        ELSE LET g == GCD(p[2], q[2])
             IN  R(p[1] * (q[2] \div g) + q[1] * (p[2] \div g),
                   (p[2] \div g) * q[2]))
  ELSE IF isNaN(p) \/ isNaN(q) THEN NaN
  ELSE IF ~isFinite(p) /\ ~isFinite(q)
  THEN (IF p = q THEN p ELSE NaN)
  ELSE IF isFinite(p) THEN q ELSE p

Sub(p, q) == Add(p, Neg(q))

Mul(p, q) ==
  IF isFinite(p) /\ isFinite(q)
  THEN (IF p[2] = 1 /\ q[2] = 1 THEN <<p[1] * q[1], 1>>
        ELSE LET g1 == GCD(Abs(p[1]), q[2])
                 g2 == GCD(Abs(q[1]), p[2])
             IN  <<(p[1] \div g1) * (q[1] \div g2), (p[2] \div g2) * (q[2] \div g1)>>)
  ELSE <<Sign(p[1]) * Sign(q[1]), 0>>

\* p / q with the IEEE results for a zero divisor: x/0 is +-Infinity, 0/0 is NaN
Div(p, q) ==
  IF isNaN(p) \/ isNaN(q) THEN NaN
  ELSE IF ~isFinite(q) THEN (IF isFinite(p) THEN I(0) ELSE NaN)
  ELSE IF q[1] = 0 THEN <<Sign(p[1]), 0>>
  ELSE Mul(p, <<Sign(q[1]) * q[2], Abs(q[1])>>)

\* p < q; false when either is NaN, as in JavaScript
Lt(p, q) ==
  /\ ~isNaN(p)
  /\ ~isNaN(q)
  /\ p # q
  /\ IF isFinite(p) /\ isFinite(q) THEN p[1] * q[2] < q[1] * p[2]
     ELSE IF ~isFinite(p) THEN p[1] < 0
     ELSE q[1] > 0

Leq(p, q) == (p = q /\ ~isNaN(p)) \/ Lt(p, q)

\* Math.min of two numbers
MathMin(p, q) ==
  IF isNaN(p) \/ isNaN(q) THEN NaN ELSE IF Lt(q, p) THEN q ELSE p

RECURSIVE SqrtBetween(_, _, _)
SqrtBetween(n, lo, hi) ==
  IF lo >= hi THEN lo
  ELSE LET mid == (lo + hi + 1) \div 2
       IN  IF mid <= n \div mid THEN SqrtBetween(n, mid, hi)
           ELSE SqrtBetween(n, lo, mid - 1)

\* the integer square root; exact on the perfect squares the model's points produce
ISqrt(n) == SqrtBetween(n, 0, n)

\* Math.hypot of two numbers: sqrt(x^2 + y^2), computed over the common denominator
MathHypot(x, y) ==
  IF ~isFinite(x) \/ ~isFinite(y)
  THEN (IF (~isFinite(x) /\ ~isNaN(x)) \/ (~isFinite(y) /\ ~isNaN(y))
        THEN Infinity ELSE NaN)
  ELSE LET g == GCD(x[2], y[2])
           l == (x[2] \div g) * y[2]
           a == Abs(x[1]) * (l \div x[2])
           b == Abs(y[1]) * (l \div y[2])
           k == GCD(a, b)
       IN  IF k = 0 THEN I(0)
           ELSE R(k * ISqrt((a \div k) * (a \div k) + (b \div k) * (b \div k)), l)

\* the truncation of a non-negative number to the unsigned long canvas.width holds
Trunc(p) == p[1] \div p[2]

(***************************************************************************)
(* Points: "some basic 2d geometry"                                        *)
(***************************************************************************)
Pt(x, y) == [x |-> x, y |-> y]

\* the distance along the axes instead of the straight line
distanceManhattan(p1, p2) ==
  Add(MathHypot(Sub(p1.x, p2.x), I(0)), MathHypot(Sub(p1.y, p2.y), I(0)))

distance(p1, p2) == MathHypot(Sub(p1.x, p2.x), Sub(p1.y, p2.y))

midpoint(p1, p2) ==
  Pt(Div(Add(p1.x, p2.x), I(2)), Div(Add(p1.y, p2.y), I(2)))

subtract(p1, p2) == Pt(Sub(p1.x, p2.x), Sub(p1.y, p2.y))

(***************************************************************************)
(* The canvas context's transform                                          *)
(***************************************************************************)
Identity == [a |-> I(1), e |-> I(0), f |-> I(0)]

\* ctx.translate(x, y): ignored when an argument is infinite or NaN
Translate(m, x, y) ==
  IF ~isFinite(x) \/ ~isFinite(y) THEN m
  ELSE [m EXCEPT !.e = Add(@, Mul(m.a, x)), !.f = Add(@, Mul(m.a, y))]

\* ctx.scale(v, v): ignored when the argument is infinite or NaN
Scale(m, v) ==
  IF ~isFinite(v) THEN m ELSE [m EXCEPT !.a = Mul(@, v)]

\* matrix.transformPoint(p): image space to device space
transformPoint(m, p) ==
  Pt(Add(Mul(m.a, p.x), m.e), Add(Mul(m.a, p.y), m.f))

\* ctx.getTransform().inverse().transformPoint(point): the inverse of a
\* matrix that is not invertible has every entry NaN
toImageSpace(m, point) ==
  IF m.a[1] = 0 THEN Pt(NaN, NaN)
  ELSE Pt(Div(Sub(point.x, m.e), m.a), Div(Sub(point.y, m.f), m.a))

(***************************************************************************)
(* Bounds and inputs                                                       *)
(***************************************************************************)
\* the number of events (and calls of update or destroy) in a run
MaxSteps == 4

\* the number of events in a run of pointer events only
MaxPointerSteps == 5

\* the canvases of the page; canvas 1 is attached in the initial state
Canvases == {1, 2}

\* window.devicePixelRatio
DevicePixelRatios == {I(1), R(3, 2)}

PointerIds == {1, 2, 3}

\* offsetX, offsetY of pointer and wheel events, in CSS pixels: the corners of
\* a 3-4-5 triangle, so that every distance between two of them is rational
Offsets == {<<100, 100>>, <<160, 100>>, <<100, 180>>}

\* clientWidth, clientHeight of a canvas and the contentRect of a resize entry
Sizes == {<<400, 200>>, <<201, 101>>}

\* the Options a caller passes; padding and maxZoom are optional
OptionSets ==
  { [width |-> 200, height |-> 100],
    [width |-> 100, height |-> 50, padding |-> 10, maxZoom |-> 4] }

\* Options no caller should pass: a negative width, a zero size, a zero maxZoom
InvalidOptionSets ==
  { [width |-> -200, height |-> 100],
    [width |-> 0, height |-> 0],
    [width |-> 200, height |-> 100, maxZoom |-> 0] }

\* offsetX, offsetY of wheel events: the centre of the first canvas and a point
\* off its centre
WheelOffsets == {<<100, 100>>, <<160, 100>>}

\* wheel events carry deltaY = k * 512 * ln 2, so that exp(-deltaY / 512) = 2^(-k)
WheelNotches == {-1, 1}

DefaultPadding == 0

DefaultMaxZoom == 16

(***************************************************************************)
(* State                                                                   *)
(***************************************************************************)
VARIABLES
  dpr,              \* window.devicePixelRatio
  resizeObserver,   \* whether the module's single ResizeObserver exists
  resizeCallbacks,  \* the WeakMap: canvas -> the instance whose callback it holds
  observed,         \* the canvases the ResizeObserver observes
  status,           \* per canvas: "none", "attached" or "destroyed"
  canvas,           \* per canvas: [width, height], the canvas's bitmap size
  ctx,              \* per canvas: the context's current transform
  inst,             \* per instance: the closure's variables
  pointers,         \* per instance: the Map of active pointers, in insertion order
  captured,         \* per canvas: the pointer ids the canvas has captured
  listeners,        \* per canvas: the event types with a listener of the instance
  last,             \* the most recent event: [kind, canvas, args]
  renderLog,        \* per instance: the transforms render(ctx) saw in that event
  steps

vars ==
  << dpr, resizeObserver, resizeCallbacks, observed, status, canvas, ctx, inst,
     pointers, captured, listeners, last, renderLog, steps >>

EventTypes == {"pointerdown", "pointerup", "pointercancel", "pointermove", "wheel"}

NoInst ==
  [ minZoom |-> NaN, width |-> NaN, height |-> NaN, padding |-> NaN,
    maxZoom |-> NaN, view_width |-> NaN, view_height |-> NaN,
    options |-> [width |-> 0, height |-> 0] ]

(***************************************************************************)
(* The Map of active pointers: a sequence of [id, point] in insertion order*)
(***************************************************************************)
Has(ptrs, id) == \E i \in 1..Len(ptrs) : ptrs[i].id = id

\* Map.get; for an absent key it is undefined, which transformPoint reads as
\* the default point (0, 0)
Get(ptrs, id) ==
  IF Has(ptrs, id)
  THEN ptrs[CHOOSE i \in 1..Len(ptrs) : ptrs[i].id = id].point
  ELSE Pt(I(0), I(0))

\* Map.set: a present key keeps its place
Set(ptrs, id, point) ==
  IF Has(ptrs, id)
  THEN [i \in 1..Len(ptrs) |->
          IF ptrs[i].id = id THEN [id |-> id, point |-> point] ELSE ptrs[i]]
  ELSE Append(ptrs, [id |-> id, point |-> point])

Delete(ptrs, id) == SelectSeq(ptrs, LAMBDA en : en.id # id)

Ids(ptrs) == {ptrs[i].id : i \in 1..Len(ptrs)}

(***************************************************************************)
(* The functions of the closure.  A handler works on r = [ctx, log]: the   *)
(* transform and the transforms render(ctx) has been called with so far.   *)
(***************************************************************************)
\* function rerender: clears the canvas and calls render(ctx)
rerender(r) == [r EXCEPT !.log = Append(@, r.ctx)]

\* function moveBy
moveBy(r, delta) == [r EXCEPT !.ctx = Translate(@, delta.x, delta.y)]

\* the local function scale of zoomOn
scaleAbout(m, point, value) ==
  Translate(Scale(Translate(m, point.x, point.y), value),
            Neg(point.x), Neg(point.y))

\* zoomOn with its two corrections scaling about the origin, not about point
zoomOnUnanchored(r, point, zoom, minZoom, maxZoom) ==
  LET m1 == scaleAbout(r.ctx, point, zoom)
      m2 == IF Lt(m1.a, minZoom) THEN Scale(m1, Div(minZoom, m1.a)) ELSE m1
      m3 == IF Lt(maxZoom, m1.a) THEN Scale(m2, Div(maxZoom, m1.a)) ELSE m2
  IN  rerender([r EXCEPT !.ctx = m3])

\* zoomOn calling rerender before its corrections, not after them
zoomOnRenderEarly(r, point, zoom, minZoom, maxZoom) ==
  LET r1 == rerender([r EXCEPT !.ctx = scaleAbout(r.ctx, point, zoom)])
      m1 == r1.ctx
      m2 == IF Lt(m1.a, minZoom)
            THEN scaleAbout(m1, point, Div(minZoom, m1.a)) ELSE m1
      m3 == IF Lt(maxZoom, m1.a)
            THEN scaleAbout(m2, point, Div(maxZoom, m1.a)) ELSE m2
  IN  [r1 EXCEPT !.ctx = m3]

\* function zoomOn; transform is the snapshot taken after the first scale
zoomOn(r, point, zoom, minZoom, maxZoom) ==
  LET m1 == scaleAbout(r.ctx, point, zoom)
      transform == m1
      m2 == IF Lt(transform.a, minZoom)
            THEN scaleAbout(m1, point, Div(minZoom, transform.a))
            ELSE m1
      m3 == IF Lt(maxZoom, transform.a)
            THEN scaleAbout(m2, point, Div(maxZoom, transform.a))
            ELSE m2
  IN  rerender([r EXCEPT !.ctx = m3])

\* function pointFromEvent: the event's offset in canvas space
pointFromEvent(off, d) == Pt(Mul(I(off[1]), d), Mul(I(off[2]), d))

\* fitZoom fitting the width alone
fitZoomWidthOnly(cv, w, h, padding, d) ==
  Div(I(cv.width), Add(w, Mul(padding, d)))

\* minZoom as initialize and the resize callback compute it
fitZoom(cv, w, h, padding, d) ==
  MathMin(Div(I(cv.width), Add(w, Mul(padding, d))),
          Div(I(cv.height), Add(h, Mul(padding, d))))

\* { padding: 0, maxZoom: 16, ...options }
withDefaults(options) ==
  options @@ [padding |-> DefaultPadding, maxZoom |-> DefaultMaxZoom]

\* initialize without its resetTransform: the transform in effect is kept
resetTransformMissing(m) == m

\* ctx.resetTransform()
resetTransform(m) == Identity

\* function initialize, called with the transform m in effect: the closure's
\* variables, the transform and the render
initialize(m, in, cv, options, d) ==
  LET o == withDefaults(options)
      minZoom == fitZoom(cv, I(o.width), I(o.height), I(o.padding), d)
      m1 == Translate(resetTransform(m),
                      Div(I(cv.width), I(2)), Div(I(cv.height), I(2)))
      m2 == Scale(m1, minZoom)
      m3 == Translate(m2, Div(I(-o.width), I(2)), Div(I(-o.height), I(2)))
      r == rerender([ctx |-> m3, log |-> <<>>])
  IN  [ inst |-> [in EXCEPT !.width = I(o.width), !.height = I(o.height),
                            !.padding = I(o.padding), !.maxZoom = I(o.maxZoom),
                            !.minZoom = minZoom],
        ctx |-> r.ctx,
        log |-> r.log ]

\* function onpointerdown: the pointers after the press
onpointerdown(ptrs, id, point) == Set(ptrs, id, point)

\* onpointerend without its pointers.delete
onpointerendKept(ptrs, id) == ptrs

\* function onpointerend: the pointers after the release or cancel
onpointerend(ptrs, id) == Delete(ptrs, id)

\* onpointermove without its check of the pointer id
isPressedAlways(ptrs, id) == TRUE

\* "ignore if pointer not pressed"
isPressed(ptrs, id) == Has(ptrs, id)

\* case 1 of onpointermove: the image-space distance the pointer moved
panDelta(m, prev, point) == subtract(toImageSpace(m, point), toImageSpace(m, prev))

\* case 2 of onpointermove up to its calls of moveBy and zoomOn: the pointers
\* after the move, the new midpoint, the distance the midpoint moved and the
\* ratio of the pinch sizes
pinch(m, ptrs, id, point) ==
  LET p1 == toImageSpace(m, ptrs[1].point)
      p2 == toImageSpace(m, ptrs[2].point)
      prev_middle == midpoint(p1, p2)
      prev_dist == distance(p1, p2)
      ptrs2 == Set(ptrs, id, point)
      q1 == toImageSpace(m, ptrs2[1].point)
      q2 == toImageSpace(m, ptrs2[2].point)
      middle == midpoint(q1, q2)
      dist == distance(q1, q2)
  IN  [ pointers |-> ptrs2,
        middle |-> middle,
        diff |-> subtract(middle, prev_middle),
        zoom |-> Div(dist, prev_dist) ]

\* onpointermove panning by every move of an active pointer, however many
\* pointers are active
onpointermovePanAlways(m, ptrs, in, id, point) ==
  IF ~isPressed(ptrs, id) THEN [ctx |-> m, log |-> <<>>, pointers |-> ptrs]
  ELSE LET diff == panDelta(m, Get(ptrs, id), point)
           r == rerender(moveBy([ctx |-> m, log |-> <<>>], diff))
       IN  [ctx |-> r.ctx, log |-> r.log, pointers |-> Set(ptrs, id, point)]

\* function onpointermove: the transform, the renders and the pointers after
\* a move of pointer id to point
onpointermove(m, ptrs, in, id, point) ==
  LET r0 == [ctx |-> m, log |-> <<>>]
  IN
  IF ~isPressed(ptrs, id) THEN [ctx |-> m, log |-> <<>>, pointers |-> ptrs]
  ELSE
    CASE Len(ptrs) = 1 ->
           LET prev == Get(ptrs, id)
               diff == panDelta(m, prev, point)
               r == rerender(moveBy(r0, diff))
           IN  [ctx |-> r.ctx, log |-> r.log, pointers |-> Set(ptrs, id, point)]
      [] Len(ptrs) = 2 ->
           LET g == pinch(m, ptrs, id, point)
               r == zoomOn(moveBy(r0, g.diff), g.middle, g.zoom,
                           in.minZoom, in.maxZoom)
           IN  [ctx |-> r.ctx, log |-> r.log, pointers |-> g.pointers]
      [] OTHER -> [ctx |-> m, log |-> <<>>, pointers |-> ptrs]

\* Math.exp(-event.deltaY / 512) for deltaY = k * 512 * ln 2
wheelZoom(k) == IF k >= 0 THEN R(1, 2 ^ k) ELSE I(2 ^ (-k))

\* function onwheel
onwheel(m, in, point, k) ==
  zoomOn([ctx |-> m, log |-> <<>>], toImageSpace(m, point), wheelZoom(k),
         in.minZoom, in.maxZoom)

\* the callback panzoom stores in resizeCallbacks, called with an entry whose
\* contentRect is rect; setting canvas.width resets the context's transform,
\* which the callback then restores from its snapshot
resizeCallback(m, in, rect, d) ==
  LET prev == toImageSpace(m, Pt(Div(in.view_width, I(2)), Div(in.view_height, I(2))))
      transform == m
      view_width == Mul(I(rect[1]), d)
      view_height == Mul(I(rect[2]), d)
      cv == [width |-> Trunc(view_width), height |-> Trunc(view_height)]
      minZoom == fitZoom(cv, I(in.options.width), I(in.options.height), in.padding, d)
      middle == toImageSpace(transform,
                             Pt(Div(I(cv.width), I(2)), Div(I(cv.height), I(2))))
      m2 == Translate(transform, Sub(middle.x, prev.x), Sub(middle.y, prev.y))
      r == rerender([ctx |-> m2, log |-> <<>>])
  IN  [ inst |-> [in EXCEPT !.view_width = view_width, !.view_height = view_height,
                            !.minZoom = minZoom],
        canvas |-> cv,
        ctx |-> r.ctx,
        log |-> r.log ]

\* the ResizeObserver calling every stored callback, whatever the entry's target
callbackForAny(callbacks, target) == {callbacks[x] : x \in DOMAIN callbacks}

\* the ResizeObserver's callback, for one entry: the callback stored for the
\* entry's target, or none
callbackFor(callbacks, target) ==
  IF target \in DOMAIN callbacks THEN {callbacks[target]} ELSE {}

\* function panzoom up to its first initialize: the canvas is sized from its
\* client size, and view_width is the product before the canvas truncates it
panzoom(size, options, d) ==
  LET view_width == Mul(I(size[1]), d)
      view_height == Mul(I(size[2]), d)
      cv == [width |-> Trunc(view_width), height |-> Trunc(view_height)]
      in == [NoInst EXCEPT !.view_width = view_width,
                           !.view_height = view_height,
                           !.options = options]
      init == initialize(Identity, in, cv, options, d)
  IN  [canvas |-> cv, inst |-> init.inst, ctx |-> init.ctx, log |-> init.log]

\* update(options) of the returned object
update(m, in, cv, options, d) == initialize(m, in, cv, options, d)

\* destroy() of the returned object: what it leaves of the registrations
destroyObserved(obs, c) == obs \ {c}

destroyCallbacks(callbacks, c) ==
  [x \in DOMAIN callbacks \ {c} |-> callbacks[x]]

\* destroy leaving the wheel listener in place
destroyListenersKeepWheel(ls) == ls \ (EventTypes \ {"wheel"})

destroyListeners(ls) == ls \ EventTypes

(***************************************************************************)
(* The initial state: panzoom(canvas 1, options) has returned              *)
(***************************************************************************)
Only(c, log) == [x \in Canvases |-> IF x = c THEN log ELSE <<>>]

\* the client size and the options of canvas 1 when panzoom is called on it
InitialSize == <<400, 200>>

InitialOptions == [width |-> 200, height |-> 100]

InitWith(n) ==
  \E d \in DevicePixelRatios :
    LET p == panzoom(InitialSize, InitialOptions, d)
    IN  /\ dpr = d
        /\ resizeObserver = TRUE
        /\ resizeCallbacks = [x \in {1} |-> 1]
        /\ observed = {1}
        /\ status = [x \in Canvases |-> IF x = 1 THEN "attached" ELSE "none"]
        /\ canvas = [x \in Canvases |->
                       IF x = 1 THEN p.canvas ELSE [width |-> 300, height |-> 150]]
        /\ ctx = [x \in Canvases |-> IF x = 1 THEN p.ctx ELSE Identity]
        /\ inst = [x \in Canvases |-> IF x = 1 THEN p.inst ELSE NoInst]
        /\ pointers = [x \in Canvases |-> <<>>]
        /\ captured = [x \in Canvases |-> {}]
        /\ listeners = [x \in Canvases |-> IF x = 1 THEN EventTypes ELSE {}]
        /\ last = [kind |-> "attach", canvas |-> 1, args |-> <<>>]
        /\ renderLog = Only(1, p.log)
        /\ steps = n

Init == InitWith(MaxSteps)

(***************************************************************************)
(* Events and calls                                                        *)
(***************************************************************************)
\* one more event or call: last keeps its kind, its canvas and, for a wheel
\* event, a press and a move of a pointer that is active, the arguments its
\* handler reads
\* (none when the canvas has no listener for the event)
StepWith(kind, c, args) ==
  /\ steps > 0
  /\ steps' = steps - 1
  /\ last' = [kind |-> kind, canvas |-> c, args |-> args]

Step(kind, c) == StepWith(kind, c, <<>>)

\* panzoom(canvas c, options) for a canvas that has no instance yet
Attach(c, size, o) ==
  /\ status[c] = "none"
  /\ Step("attach", c)
  /\ LET p == panzoom(size, o, dpr)
     IN  /\ canvas' = [canvas EXCEPT ![c] = p.canvas]
         /\ ctx' = [ctx EXCEPT ![c] = p.ctx]
         /\ inst' = [inst EXCEPT ![c] = p.inst]
         /\ renderLog' = Only(c, p.log)
  /\ resizeObserver' = TRUE
  /\ resizeCallbacks' = [x \in DOMAIN resizeCallbacks \cup {c} |->
                           IF x = c THEN c ELSE resizeCallbacks[x]]
  /\ observed' = observed \cup {c}
  /\ status' = [status EXCEPT ![c] = "attached"]
  /\ pointers' = [pointers EXCEPT ![c] = <<>>]
  /\ listeners' = [listeners EXCEPT ![c] = EventTypes]
  /\ UNCHANGED <<dpr, captured>>

\* the id of a new contact: a pointer that is down sends no second pointerdown;
\* of the ids not in use the browser is taken to give out the lowest
FreshPointerId(ptrs) ==
  IF PointerIds \ Ids(ptrs) = {} THEN 0
  ELSE CHOOSE id \in PointerIds \ Ids(ptrs) :
         \A other \in PointerIds \ Ids(ptrs) : id <= other

\* a pointerdown event on canvas c, of a pointer that is not down
PointerDown(c, id, off) ==
  /\ status[c] # "none"
  /\ id \in PointerIds
  /\ ~Has(pointers[c], id)
  /\ StepWith("pointerdown", c,
              IF "pointerdown" \in listeners[c] THEN <<id, off>> ELSE <<>>)
  /\ IF "pointerdown" \in listeners[c]
     THEN /\ captured' = [captured EXCEPT ![c] = @ \cup {id}]
          /\ pointers' = [pointers EXCEPT
                            ![c] = onpointerdown(@, id, pointFromEvent(off, dpr))]
     ELSE UNCHANGED <<captured, pointers>>
  /\ renderLog' = Only(c, <<>>)
  /\ UNCHANGED <<dpr, resizeObserver, resizeCallbacks, observed, status, canvas,
                 ctx, inst, listeners>>

PointerEnd(kind, c, id) ==
  /\ status[c] # "none"
  /\ StepWith(kind, c,
              IF kind \in listeners[c] /\ Has(pointers[c], id) THEN <<id>> ELSE <<>>)
  /\ IF kind \in listeners[c]
     THEN /\ captured' = [captured EXCEPT ![c] = @ \ {id}]
          /\ pointers' = [pointers EXCEPT ![c] = onpointerend(@, id)]
     ELSE UNCHANGED <<captured, pointers>>
  /\ renderLog' = Only(c, <<>>)
  /\ UNCHANGED <<dpr, resizeObserver, resizeCallbacks, observed, status, canvas,
                 ctx, inst, listeners>>

\* a pointerup event on canvas c
PointerUp(c, id) == PointerEnd("pointerup", c, id)

\* a pointercancel event on canvas c
PointerCancel(c, id) == PointerEnd("pointercancel", c, id)

\* a pointermove event on canvas c
PointerMove(c, id, off) ==
  /\ status[c] # "none"
  /\ StepWith("pointermove", c,
              IF "pointermove" \in listeners[c] /\ Has(pointers[c], id)
              THEN <<id, off>> ELSE <<>>)
  /\ IF "pointermove" \in listeners[c]
     THEN LET res == onpointermove(ctx[c], pointers[c], inst[c], id,
                                   pointFromEvent(off, dpr))
          IN  /\ ctx' = [ctx EXCEPT ![c] = res.ctx]
              /\ pointers' = [pointers EXCEPT ![c] = res.pointers]
              /\ renderLog' = Only(c, res.log)
     ELSE /\ UNCHANGED <<ctx, pointers>>
          /\ renderLog' = Only(c, <<>>)
  /\ UNCHANGED <<dpr, resizeObserver, resizeCallbacks, observed, status, canvas,
                 inst, captured, listeners>>

\* a wheel event on canvas c
Wheel(c, off, k) ==
  /\ status[c] # "none"
  /\ StepWith("wheel", c, IF "wheel" \in listeners[c] THEN <<off, k>> ELSE <<>>)
  /\ IF "wheel" \in listeners[c]
     THEN LET r == onwheel(ctx[c], inst[c], pointFromEvent(off, dpr), k)
          IN  /\ ctx' = [ctx EXCEPT ![c] = r.ctx]
              /\ renderLog' = Only(c, r.log)
     ELSE /\ UNCHANGED ctx
          /\ renderLog' = Only(c, <<>>)
  /\ UNCHANGED <<dpr, resizeObserver, resizeCallbacks, observed, status, canvas,
                 inst, pointers, captured, listeners>>

\* the content box of canvas c becomes size: the ResizeObserver, if it observes
\* c, is called with one entry, and calls the callback stored for the target
Resize(c, size) ==
  /\ status[c] # "none"
  /\ Step("resize", c)
  /\ LET called == IF resizeObserver /\ c \in observed
                   THEN callbackFor(resizeCallbacks, c) ELSE {}
         res == [i \in called |-> resizeCallback(ctx[i], inst[i], size, dpr)]
     IN  /\ inst' = [i \in Canvases |-> IF i \in called THEN res[i].inst ELSE inst[i]]
         /\ canvas' = [i \in Canvases |->
                         IF i \in called THEN res[i].canvas ELSE canvas[i]]
         /\ ctx' = [i \in Canvases |-> IF i \in called THEN res[i].ctx ELSE ctx[i]]
         /\ renderLog' = [i \in Canvases |->
                            IF i \in called THEN res[i].log ELSE <<>>]
  /\ UNCHANGED <<dpr, resizeObserver, resizeCallbacks, observed, status, pointers,
                 captured, listeners>>

\* update(options) on the object panzoom returned for canvas c; Svelte calls
\* update and destroy of an action only while its element is mounted
Update(c, o) ==
  /\ status[c] = "attached"
  /\ Step("update", c)
  /\ LET res == update(ctx[c], inst[c], canvas[c], o, dpr)
     IN  /\ inst' = [inst EXCEPT ![c] = res.inst]
         /\ ctx' = [ctx EXCEPT ![c] = res.ctx]
         /\ renderLog' = Only(c, res.log)
  /\ UNCHANGED <<dpr, resizeObserver, resizeCallbacks, observed, status, canvas,
                 pointers, captured, listeners>>

\* destroy() on the object panzoom returned for canvas c
Destroy(c) ==
  /\ status[c] = "attached"
  /\ Step("destroy", c)
  /\ observed' = destroyObserved(observed, c)
  /\ resizeCallbacks' = destroyCallbacks(resizeCallbacks, c)
  /\ listeners' = [listeners EXCEPT ![c] = destroyListeners(@)]
  /\ status' = [status EXCEPT ![c] = "destroyed"]
  /\ renderLog' = Only(c, <<>>)
  /\ UNCHANGED <<dpr, resizeObserver, canvas, ctx, inst, pointers, captured>>

\* one canvas: every event and call on canvas 1
Next ==
  \/ \E off \in Offsets : PointerDown(1, FreshPointerId(pointers[1]), off)
  \/ \E id \in PointerIds : PointerUp(1, id)
  \/ \E id \in PointerIds : PointerCancel(1, id)
  \/ \E id \in PointerIds, off \in Offsets : PointerMove(1, id, off)
  \/ \E off \in WheelOffsets, k \in WheelNotches : Wheel(1, off, k)
  \/ \E size \in Sizes : Resize(1, size)
  \/ \E o \in OptionSets : Update(1, o)
  \/ Destroy(1)

Spec == Init /\ [][Next]_vars

\* where the wheel is turned when several canvases are attached
MultiWheelOffset == <<160, 100>>

\* several canvases: panzoom on the second canvas, and on every canvas that has
\* an instance the events and calls that change a transform or a registration
NextMulti ==
  \/ \E c \in Canvases, size \in Sizes, o \in OptionSets : Attach(c, size, o)
  \/ \E c \in Canvases, k \in WheelNotches : Wheel(c, MultiWheelOffset, k)
  \/ \E c \in Canvases, size \in Sizes : Resize(c, size)
  \/ \E c \in Canvases, o \in OptionSets : Update(c, o)
  \/ \E c \in Canvases : Destroy(c)

SpecMulti == Init /\ [][NextMulti]_vars

\* misuse: panzoom and update are also called with Options that are not valid,
\* and the wheel is turned on what they leave
NextMisuse ==
  \/ \E size \in Sizes, o \in OptionSets \cup InvalidOptionSets : Attach(2, size, o)
  \/ \E o \in OptionSets \cup InvalidOptionSets : Update(1, o)
  \/ \E c \in Canvases, k \in WheelNotches : Wheel(c, MultiWheelOffset, k)

SpecMisuse == Init /\ [][NextMisuse]_vars

\* pointer events only, on canvas 1, in longer runs
InitPointers == InitWith(MaxPointerSteps)

NextPointers ==
  \/ \E off \in Offsets : PointerDown(1, FreshPointerId(pointers[1]), off)
  \/ \E id \in PointerIds : PointerUp(1, id)
  \/ \E id \in PointerIds : PointerCancel(1, id)
  \/ \E id \in PointerIds, off \in Offsets : PointerMove(1, id, off)

SpecPointers == InitPointers /\ [][NextPointers]_vars

(***************************************************************************)
(* Properties                                                              *)
(***************************************************************************)
IsPoint(p) == isFinite(p.x) /\ isFinite(p.y)

Center(cv) == Pt(Div(I(cv.width), I(2)), Div(I(cv.height), I(2)))

InputEvents ==
  {"pointerdown", "pointerup", "pointercancel", "pointermove", "wheel", "resize"}

\* zoomOn ran in the most recent event, on canvas c: a wheel event that was
\* handled, or a move of one of exactly two active pointers
ZoomedJustNow(c) ==
  /\ last.canvas = c
  /\ renderLog[c] # <<>>
  /\ \/ last.kind = "wheel"
     \/ last.kind = "pointermove" /\ Len(pointers[c]) = 2

\* C1: immediately after every zoom operation (a handled wheel event, or a move
\* of one of two active pointers) the scale lies between the minZoom and the
\* maxZoom in force: minZoom <= scale <= maxZoom.
ZoomAlwaysClamped ==
  \A c \in Canvases :
    ZoomedJustNow(c)
      => /\ Leq(inst[c].minZoom, ctx[c].a)
         /\ Leq(ctx[c].a, inst[c].maxZoom)

\* C2: anchor invariance.  zoomOn(p, f) leaves the device-space projection of
\* the image-space point p where it was, for each of its two callers: a wheel
\* event zooms on the image-space point under the cursor, which is under the
\* cursor afterwards too; a move of one of two pointers zooms, after its moveBy,
\* on the image-space point middle by a positive factor, and middle projects
\* after the zoom where it projected after the moveBy.  Clamped or not.  Where
\* the transform has no inverse no image-space point is under the cursor, and
\* the wheel event leaves the transform as it is.
AnchorInvariance ==
  [][ /\ (last'.kind = "wheel" /\ "wheel" \in listeners[1])
           => \A cursor \in {pointFromEvent(last'.args[1], dpr)} :
                \A p \in {toImageSpace(ctx[1], cursor)} :
                  IF IsPoint(p)
                  THEN /\ transformPoint(ctx[1], p) = cursor
                       /\ transformPoint(ctx'[1], p) = cursor
                  ELSE ctx'[1] = ctx[1]
      /\ (/\ last'.kind = "pointermove"
          /\ last'.args # <<>>
          /\ "pointermove" \in listeners[1]
          /\ Len(pointers[1]) = 2)
           => \A g \in {pinch(ctx[1], pointers[1], last'.args[1],
                              pointFromEvent(last'.args[2], dpr))} :
                \A moved \in {moveBy([ctx |-> ctx[1], log |-> <<>>], g.diff).ctx} :
                  (IsPoint(g.middle) /\ Lt(I(0), g.zoom))
                    => transformPoint(ctx'[1], g.middle)
                         = transformPoint(moved, g.middle)
    ]_vars

\* C2: a wheel event has hit the maxZoom clamp (twice the minZoom is above maxZoom)
AnchorInvarianceWitness ==
  /\ last.kind = "wheel"
  /\ renderLog[1] # <<>>
  /\ ctx[1].a = inst[1].maxZoom
  /\ Lt(inst[1].minZoom, inst[1].maxZoom)
  /\ Lt(inst[1].maxZoom, Mul(I(2), inst[1].minZoom))

\* what a move of the one active pointer from its stored device position to b
\* leaves: the image-space point that was under the stored position is the
\* image-space point under b, provided there was one (always) or only when the
\* stored position had an image-space point under it; the stored position is b
PanSticks(always) ==
  (/\ last'.kind = "pointermove"
   /\ last'.args # <<>>
   /\ "pointermove" \in listeners[1]
   /\ Len(pointers[1]) = 1)
    => LET id == last'.args[1]
           b == pointFromEvent(last'.args[2], dpr)
       IN  /\ \A grabbed \in {toImageSpace(ctx[1], Get(pointers[1], id))} :
                (always \/ IsPoint(grabbed))
                  => /\ IsPoint(grabbed)
                     /\ toImageSpace(ctx'[1], b) = grabbed
           /\ Ids(pointers'[1]) = {id}
           /\ Get(pointers'[1], id) = b

\* C3: pan invariance.  When the one active pointer moves from its stored device
\* position to b, the image-space point that was under the stored position is
\* the image-space point under b afterwards, and the stored position becomes b.
PanInvariance == [][PanSticks(TRUE)]_vars

\* pan invariance in the states whose transform is invertible
PanInvarianceWhileInvertible == [][PanSticks(FALSE)]_vars

\* the image's corners map into the canvas
CornersInside(c) ==
  \A x \in {I(0), inst[c].width}, y \in {I(0), inst[c].height} :
    LET q == transformPoint(ctx[c], Pt(x, y))
    IN  /\ Leq(I(0), q.x) /\ Leq(q.x, I(canvas[c].width))
        /\ Leq(I(0), q.y) /\ Leq(q.y, I(canvas[c].height))

\* the placement initialize leaves on canvas c, for the padding given in device
\* pixels: the scale is minZoom, the fit of the padded image; the image's centre
\* is at the canvas's centre; the image's corners are inside the canvas
Placed(c, devicePadding) ==
  /\ inst[c].minZoom =
       MathMin(Div(I(canvas[c].width), Add(inst[c].width, devicePadding)),
               Div(I(canvas[c].height), Add(inst[c].height, devicePadding)))
  /\ ctx[c].a = inst[c].minZoom
  /\ transformPoint(ctx[c], Pt(Div(inst[c].width, I(2)), Div(inst[c].height, I(2))))
       = Center(canvas[c])
  /\ CornersInside(c)

\* C4 as stated: after initialize the scale is
\* minZoom = min(deviceWidth / (width + padding), deviceHeight / (height + padding)),
\* the image's centre maps to the canvas's centre and its corners map inside.
InitialPlacementAsStated ==
  \A c \in Canvases :
    (last.canvas = c /\ last.kind \in {"attach", "update"})
      => Placed(c, inst[c].padding)

\* C4 as amended: the same with the padding scaled by the device pixel ratio,
\* minZoom = min(deviceWidth / (width + padding * dpr),
\*               deviceHeight / (height + padding * dpr)).
InitialPlacement ==
  \A c \in Canvases :
    (last.canvas = c /\ last.kind \in {"attach", "update"})
      => Placed(c, Mul(inst[c].padding, dpr))

\* C4: an initialization with a padding on a device whose pixel ratio is not 1
InitialPlacementWitness ==
  /\ last.kind = "update"
  /\ inst[1].padding = I(10)
  /\ dpr = R(3, 2)
  /\ canvas[1] = [width |-> 301, height |-> 151]

\* the effective options of the latest initialize are those of o
SameOptions(in, o) ==
  LET e == withDefaults(o)
  IN  /\ in.width = I(e.width) /\ in.height = I(e.height)
      /\ in.padding = I(e.padding) /\ in.maxZoom = I(e.maxZoom)

\* C5: update(options) discards the view.  Whatever happened before, the
\* transform, minZoom and maxZoom after update(options) are those panzoom gives
\* a canvas of the current size with the same options; so update(options) right
\* after update(options) changes nothing.
UpdateDiscardsView ==
  [][ \A o \in OptionSets :
        Update(1, o)
          => /\ \E size \in Sizes :
                  LET fresh == panzoom(size, o, dpr)
                  IN  /\ fresh.canvas = canvas[1]
                      /\ ctx'[1] = fresh.ctx
                      /\ inst'[1].minZoom = fresh.inst.minZoom
                      /\ inst'[1].maxZoom = fresh.inst.maxZoom
             /\ (last.kind = "update" /\ SameOptions(inst[1], o))
                  => ctx'[1] = ctx[1] /\ inst'[1] = inst[1]
    ]_vars

\* C5: an update after a resize, with two pointers down
UpdateDiscardsViewWitness ==
  /\ last.kind = "update"
  /\ Len(pointers[1]) = 2
  /\ canvas[1].width # Trunc(Mul(I(InitialSize[1]), dpr))

\* C6: a pointermove for a pointer id that is not in the active set is ignored:
\* the transform, the zoom bounds and the active pointers stay as they are and
\* nothing is rendered.
UnknownPointerMoveIgnored ==
  [][ (last'.kind = "pointermove" /\ last'.args = <<>>)
        => /\ ctx'[1] = ctx[1]
           /\ inst'[1] = inst[1]
           /\ pointers'[1] = pointers[1]
           /\ renderLog'[1] = <<>>
    ]_vars

\* C6: the handler has run for the move of a third pointer, one that is not
\* active, while two pointers are active
UnknownPointerMoveIgnoredWitness ==
  /\ last.kind = "pointermove"
  /\ last.args = <<>>
  /\ "pointermove" \in listeners[1]
  /\ Len(pointers[1]) = 2
  /\ renderLog[1] = <<>>

\* what one step on canvas c renders: a press, a release and a cancel nothing;
\* a handled wheel event, a delivered resize notification and an update the
\* finished transform, once; a handled move of an active pointer the finished
\* transform, once, while at most two pointers are active, and with more of
\* them active either the same (everyMove) or nothing, the transform unchanged
RendersOnce(c, everyMove) ==
  /\ last'.kind \in {"pointerdown", "pointerup", "pointercancel"}
       => renderLog'[c] = <<>>
  /\ (/\ last'.kind = "pointermove"
      /\ last'.args # <<>>
      /\ "pointermove" \in listeners[c])
       => IF everyMove \/ Len(pointers[c]) <= 2
          THEN renderLog'[c] = <<ctx'[c]>>
          ELSE renderLog'[c] = <<>> /\ ctx'[c] = ctx[c]
  /\ (last'.kind = "wheel" /\ "wheel" \in listeners[c])
       => renderLog'[c] = <<ctx'[c]>>
  /\ (last'.kind = "resize" /\ c \in observed /\ c \in DOMAIN resizeCallbacks)
       => renderLog'[c] = <<ctx'[c]>>
  /\ last'.kind = "update" => renderLog'[c] = <<ctx'[c]>>

\* C7 as stated: render is called exactly once per state-changing event, after
\* the event's transform update: by the first initialize, every move of an
\* active pointer, every wheel event, every resize notification and every
\* update; never by a press, a release or a cancel.
RenderOncePerEventAsStated ==
  /\ renderLog[1] = <<ctx[1]>>
  /\ [][RendersOnce(1, TRUE)]_vars

\* C7 as amended: the same, but a move of an active pointer renders once only
\* while one or two pointers are active; while three or more are active it
\* leaves the transform as it is and renders nothing.
RenderOncePerEvent ==
  /\ renderLog[1] = <<ctx[1]>>
  /\ [][RendersOnce(1, FALSE)]_vars

\* C7: a move of one of two pointers rendered the transform it left, the scale
\* clamped to maxZoom
RenderOncePerEventWitness ==
  /\ last.kind = "pointermove"
  /\ last.args # <<>>
  /\ Len(pointers[1]) = 2
  /\ renderLog[1] = <<ctx[1]>>
  /\ ctx[1].a = inst[1].maxZoom

\* C8: the scale of every instance's transform is finite and positive, whatever
\* presses, moves and releases came before; a pinch whose pointers coincide
\* puts no zero or non-finite scale into the transform.
ScaleFinitePositive ==
  \A c \in Canvases :
    status[c] # "none" => isFinite(ctx[c].a) /\ Lt(I(0), ctx[c].a)

\* C9: after destroy no registration remains, and every later pointer, wheel
\* and resize event on the canvas leaves the transform, the zoom bounds, the
\* canvas size and the active pointers as they are and renders nothing.
InertAfterDestroy ==
  [][ /\ status'[1] = "destroyed"
        => /\ listeners'[1] = {}
           /\ 1 \notin observed'
           /\ 1 \notin DOMAIN resizeCallbacks'
      /\ (status[1] = "destroyed" /\ last'.kind \in InputEvents)
        => /\ ctx'[1] = ctx[1]
           /\ inst'[1] = inst[1]
           /\ canvas'[1] = canvas[1]
           /\ pointers'[1] = pointers[1]
           /\ renderLog'[1] = <<>>
    ]_vars

\* C9: a wheel event after a destroy that found a pointer still active
InertAfterDestroyWitness ==
  /\ status[1] = "destroyed"
  /\ last.kind = "wheel"
  /\ pointers[1] # <<>>

\* C10: a size change of canvas c reaches the instance of canvas c, if it is
\* registered, and no other: the transform, canvas size and closure variables
\* (minZoom among them) of every other instance stay as they are and no other
\* instance renders; panzoom and destroy on canvas c leave every other
\* canvas's registration with the ResizeObserver as it is.
ResizeReachesOwnerOnly ==
  [][ \A c \in Canvases : \A other \in Canvases \ {c} :
        /\ (last'.canvas = c /\ last'.kind \in {"resize", "attach", "destroy"})
             => /\ ctx'[other] = ctx[other]
                /\ inst'[other] = inst[other]
                /\ canvas'[other] = canvas[other]
                /\ renderLog'[other] = <<>>
                /\ (other \in observed) = (other \in observed')
                /\ (other \in DOMAIN resizeCallbacks)
                     = (other \in DOMAIN resizeCallbacks')
                /\ other \in DOMAIN resizeCallbacks
                     => resizeCallbacks'[other] = resizeCallbacks[other]
        /\ \A size \in Sizes :
             (status[c] = "attached" /\ Resize(c, size))
               => /\ canvas'[c] = [width |-> Trunc(Mul(I(size[1]), dpr)),
                                   height |-> Trunc(Mul(I(size[2]), dpr))]
                  /\ renderLog'[c] = <<ctx'[c]>>
    ]_vars

\* C10: with both canvases attached and of different sizes, the second one's
\* size change has reached its instance
ResizeReachesOwnerOnlyWitness ==
  /\ status[1] = "attached"
  /\ status[2] = "attached"
  /\ last.kind = "resize"
  /\ last.canvas = 2
  /\ renderLog[2] = <<ctx[2]>>
  /\ canvas[1] # canvas[2]
  /\ ctx[1] # ctx[2]

\* the options the latest initialize of an instance took are valid
ValidOptions(in) ==
  /\ Lt(I(0), in.width)
  /\ Lt(I(0), in.height)
  /\ Lt(I(0), in.maxZoom)

\* C11: misconfiguration is fatal at initialization.  panzoom and update called
\* with a non-positive width, height or maxZoom are rejected: no instance ever
\* holds such options, and what panzoom or update rendered has a finite
\* positive scale.
MisconfigurationIsFatal ==
  \A c \in Canvases :
    status[c] # "none"
      => /\ ValidOptions(inst[c])
         /\ (last.canvas = c /\ last.kind \in {"attach", "update"})
              => \A i \in 1..Len(renderLog[c]) :
                   isFinite(renderLog[c][i].a) /\ Lt(I(0), renderLog[c][i].a)

\* the fit of the image the latest initialize of canvas c took, padded by
\* devicePadding, in the canvas as it is
FitOfLatestOptions(c, devicePadding) ==
  MathMin(Div(I(canvas[c].width), Add(inst[c].width, devicePadding)),
          Div(I(canvas[c].height), Add(inst[c].height, devicePadding)))

\* a resize notification has just been delivered to the instance of canvas c
ResizedJustNow(c) ==
  /\ last.kind = "resize"
  /\ last.canvas = c
  /\ renderLog[c] # <<>>

\* C12: on resize, minZoom is recomputed from the width, height and padding of
\* the most recent initialization, not from the options passed to panzoom:
\* minZoom = min(newDeviceWidth / (width + padding),
\*               newDeviceHeight / (height + padding)),
\* read with the padding in device pixels, as initialize computes it.
ResizeRefitsLatestOptions ==
  \A c \in Canvases :
    ResizedJustNow(c)
      => inst[c].minZoom = FitOfLatestOptions(c, Mul(inst[c].padding, dpr))

\* C13: a resize notification does not rescale and keeps the view centred.
\* After the resize callback has run the scale is the scale before it, and the
\* image-space point that was at the centre of the old canvas is at the centre
\* of the new canvas.
ResizeKeepsScaleAndCenter ==
  [][ (last'.kind = "resize" /\ 1 \in observed /\ 1 \in DOMAIN resizeCallbacks)
        => /\ ctx'[1].a = ctx[1].a
           /\ \A centred \in {toImageSpace(ctx[1], Center(canvas[1]))} :
                transformPoint(ctx'[1], centred) = Center(canvas'[1])
    ]_vars

\* C14: the active pointers map every active pointer id to its last known
\* position.  After every handled press, and after every handled move of an
\* active pointer, the stored position of that pointer is the position the
\* event carried, however many pointers are active.
StoredPositionIsLatest ==
  [][ (last'.kind \in {"pointerdown", "pointermove"} /\ last'.args # <<>>)
        => /\ Has(pointers'[1], last'.args[1])
           /\ Get(pointers'[1], last'.args[1]) = pointFromEvent(last'.args[2], dpr)
    ]_vars

\* the device-space midpoint of the two stored pointer positions
DeviceMidpoint(ptrs) == midpoint(ptrs[1].point, ptrs[2].point)

\* C15: pinch centroid anchoring.  When one of exactly two active pointers
\* moves, the image-space point that was under the previous device-space
\* midpoint of the two pointers is under their new device-space midpoint after
\* the move, also when the move changes both the midpoint and the distance.
PinchCentroidAnchored ==
  [][ (/\ last'.kind = "pointermove"
       /\ last'.args # <<>>
       /\ Len(pointers[1]) = 2)
        => \A centroid \in {toImageSpace(ctx[1], DeviceMidpoint(pointers[1]))} :
             transformPoint(ctx'[1], centroid) = DeviceMidpoint(pointers'[1])
    ]_vars

\* the device-space distance of the two stored pointer positions
DeviceDistance(ptrs) ==
  MathHypot(Sub(ptrs[1].point.x, ptrs[2].point.x),
            Sub(ptrs[1].point.y, ptrs[2].point.y))

\* C16: pinch scale tracks finger distance.  When one of exactly two active
\* pointers moves, their stored positions being d0 > 0 apart before and d1
\* apart after, and the scale times d1 / d0 lies within minZoom and maxZoom (no
\* clamp is triggered), the move multiplies the scale by d1 / d0; the moved
\* pointer's stored position is the event's, so that a sequence of moves from
\* distance d0 to distance d1 multiplies the scale by d1 / d0 overall.
PinchScaleTracksDistance ==
  [][ (/\ last'.kind = "pointermove"
       /\ last'.args # <<>>
       /\ Len(pointers[1]) = 2)
        => \A d0 \in {DeviceDistance(pointers[1])} :
             \A d1 \in {DeviceDistance(pointers'[1])} :
               /\ Get(pointers'[1], last'.args[1])
                    = pointFromEvent(last'.args[2], dpr)
               /\ Lt(I(0), d0)
                    => \A scaled \in {Mul(ctx[1].a, Div(d1, d0))} :
                         (Leq(inst[1].minZoom, scaled) /\ Leq(scaled, inst[1].maxZoom))
                           => ctx'[1].a = scaled
    ]_vars

\* C16: a move has changed the distance of two pointers, and with it the scale,
\* without reaching minZoom or maxZoom
PinchScaleTracksDistanceWitness ==
  /\ last.kind = "pointermove"
  /\ last.args # <<>>
  /\ Len(pointers[1]) = 2
  /\ Lt(inst[1].minZoom, ctx[1].a)
  /\ Lt(ctx[1].a, inst[1].maxZoom)
  /\ ctx[1].a = Mul(inst[1].minZoom, R(5, 3))

\* the factor zoomOn is called with by the event recorded in args, given the
\* transform and the pointers the event finds
ZoomFactor(kind, args, m, ptrs) ==
  IF kind = "wheel"
  THEN wheelZoom(args[2])
  ELSE pinch(m, ptrs, args[1], pointFromEvent(args[2], dpr)).zoom

\* C17: zoomOn clamps with at most one correction.  For the scale s an event
\* that zooms finds and the factor f it zooms by, the scale after the event is
\* s * f when minZoom <= s * f <= maxZoom, exactly minZoom when s * f < minZoom,
\* and exactly maxZoom when s * f > maxZoom and the minimum was not corrected.
ZoomOnClampsOnce ==
  [][ (/\ last'.kind \in {"wheel", "pointermove"}
       /\ last'.args # <<>>
       /\ last'.kind = "pointermove" => Len(pointers[1]) = 2)
        => \A sf \in {Mul(ctx[1].a,
                          ZoomFactor(last'.kind, last'.args, ctx[1], pointers[1]))} :
             /\ (Leq(inst[1].minZoom, sf) /\ Leq(sf, inst[1].maxZoom))
                  => ctx'[1].a = sf
             /\ Lt(sf, inst[1].minZoom) => ctx'[1].a = inst[1].minZoom
             /\ (Lt(inst[1].maxZoom, sf) /\ ~Lt(sf, inst[1].minZoom))
                  => ctx'[1].a = inst[1].maxZoom
    ]_vars

\* C18: the pointer lifecycle.  A press adds its pointer id to the active
\* pointers and captures it, a release or cancel of an active pointer removes
\* its id and its capture, and a release or cancel of any other pointer changes
\* neither, so that the active pointers are exactly those pressed and not since
\* released or cancelled, and they are the ones that hold pointer capture; these
\* events leave the transform and the zoom bounds unchanged; and while no
\* pointer is active a move has no effect.
PointerLifecycle ==
  [][ /\ captured'[1] = Ids(pointers'[1])
      /\ (last'.kind = "pointerdown" /\ last'.args # <<>>)
           => /\ Ids(pointers'[1]) = Ids(pointers[1]) \cup {last'.args[1]}
              /\ captured'[1] = captured[1] \cup {last'.args[1]}
      /\ (last'.kind \in {"pointerup", "pointercancel"} /\ last'.args # <<>>)
           => /\ Ids(pointers'[1]) = Ids(pointers[1]) \ {last'.args[1]}
              /\ captured'[1] = captured[1] \ {last'.args[1]}
      /\ (last'.kind \in {"pointerup", "pointercancel"} /\ last'.args = <<>>)
           => UNCHANGED <<pointers, captured>>
      /\ last'.kind \in {"pointerdown", "pointerup", "pointercancel"}
           => /\ UNCHANGED <<ctx, inst>>
              /\ renderLog'[1] = <<>>
      /\ (last'.kind = "pointermove" /\ pointers[1] = <<>>)
           => /\ UNCHANGED <<ctx, inst, pointers, captured>>
              /\ renderLog'[1] = <<>>
    ]_vars

\* C18: one of two active pointers has just been released or cancelled, and
\* the other is still active and captured
PointerLifecycleWitness ==
  /\ last.kind \in {"pointerup", "pointercancel"}
  /\ last.args # <<>>
  /\ Len(pointers[1]) = 1
  /\ captured[1] = Ids(pointers[1])
  /\ ~Has(pointers[1], last.args[1])

\* the pointer id is not one of the first two active pointers by press order
BeyondFirstTwo(ptrs, id) ==
  /\ Has(ptrs, id)
  /\ \A i \in 1..Len(ptrs) : ptrs[i].id = id => i > 2

\* C19: while three or more pointers are active, a move of a pointer other
\* than the first two by press order leaves the transform unchanged.
ThirdPointerMoveInert ==
  [][ (/\ last'.kind = "pointermove"
       /\ last'.args # <<>>
       /\ Len(pointers[1]) >= 3
       /\ BeyondFirstTwo(pointers[1], last'.args[1]))
        => ctx'[1] = ctx[1]
    ]_vars

\* C19: the third of three active pointers has just moved away from the
\* position it was pressed at
ThirdPointerMoveInertWitness ==
  /\ last.kind = "pointermove"
  /\ last.args # <<>>
  /\ Len(pointers[1]) = 3
  /\ BeyondFirstTwo(pointers[1], last.args[1])
  /\ Get(pointers[1], last.args[1]) # pointFromEvent(last.args[2], dpr)

\* C20: the zoom bounds are consistent.  With valid options, after initialize,
\* update and every resize minZoom <= maxZoom, and the scale initialize
\* installs lies within minZoom and maxZoom.
ZoomBoundsConsistent ==
  \A c \in Canvases :
    (status[c] # "none" /\ ValidOptions(inst[c]))
      => /\ Leq(inst[c].minZoom, inst[c].maxZoom)
         /\ (last.canvas = c /\ last.kind \in {"attach", "update"})
              => /\ Leq(inst[c].minZoom, ctx[c].a)
                 /\ Leq(ctx[c].a, inst[c].maxZoom)

====
